---- MODULE Spec2Model ----
(***************************************************************************)
(* Model of the RLPx transport of devp2p-rs: the ECIES codec               *)
(* (ECIESCodec::decode / encode), the handshake helpers                    *)
(* (ECIESStream::connect / incoming) and the message stream                *)
(* (ECIESStream::poll_next / start_send) of src/src/ecies/proto.rs.        *)
(*                                                                         *)
(* The ECIES algorithm object (src/ecies/algorithm.rs) is not part of the  *)
(* available sources; its operations are modelled from the specification   *)
(* with symbolic cryptography: a byte on the wire records the unit it was  *)
(* created in, and a MAC accumulator is the number of units of the peer's  *)
(* stream it has absorbed in order, or Poisoned.                           *)
(***************************************************************************)
EXTENDS Integers, Sequences, FiniteSets, TLC

\* ------------------------------------------------------------------ bounds
MaxSends == 2          \* payloads given to start_send, over both endpoints
ChunkUnit == 24        \* the transport accepts writes in multiples of this
MaxTamper == 1         \* bytes the network adversary may corrupt
AuthPayloadLen == 3    \* bytes of an auth payload after the size prefix
AckPayloadLen == 2     \* bytes of an ack payload after the size prefix
MaxOps == 1            \* encode calls in the codec-level specification
MaxDataLen == 1        \* bytes of data in a DPT message

\* ------------------------------------------------------- program constants
HeaderLen == 32
MacLen == 16
BlockLen == 16

Endpoints == {"client", "server"}
Peer(e) == IF e = "client" THEN "server" ELSE "client"
NoId == "none"
PeerIdOf(e) == IF e = "client" THEN "idC" ELSE "idS"
Poisoned == 0 - 1
Payloads == {<<>>, <<7>>}

\* ---------------------------------------------------------------- helpers
Min(a, b) == IF a < b THEN a ELSE b
\* The value of a singleton set: The({e : x \in {v}}) is e with x the value v,
\* computed once.
The(S) == CHOOSE x \in S : TRUE
IsPrefix(s, t) == Len(s) <= Len(t) /\ s = SubSeq(t, 1, Len(s))
Pad16(n) == ((n + BlockLen - 1) \div BlockLen) * BlockLen

\* ------------------------------------------------------------ byte buffers
\* A unit is what one create_* call of the ECIES algorithm emits: k its kind,
\* from the creator's peer id, n its position in the creator's MAC chain (0
\* for handshake units and without frame secrets), len its length in bytes,
\* val the values its leading bytes carry once decrypted (for the cleartext
\* size prefix of an envelope: their values); the other bytes carry 0.
\* A byte buffer is run-length encoded: a run is the bytes lo..hi of a unit, a
\* corrupted byte is a run of its own.  Buffers are kept normalised: adjacent
\* runs that continue each other are joined.
MkUnit(k, from, n, len, val) == [k |-> k, from |-> from, n |-> n, len |-> len, val |-> val]
WholeUnit(u) == << [u |-> u, lo |-> 1, hi |-> u.len, bad |-> FALSE] >>
RunLen(r) == r.hi - r.lo + 1

RECURSIVE BLen(_)
BLen(b) == IF b = <<>> THEN 0 ELSE RunLen(b[1]) + BLen(Tail(b))

Joinable(r, s) == r.u = s.u /\ ~r.bad /\ ~s.bad /\ r.hi + 1 = s.lo

\* extend_from_slice / the transport appending bytes
BCat(a, b) ==
    IF a = <<>> THEN b
    ELSE IF b = <<>> THEN a
    ELSE IF Joinable(a[Len(a)], b[1])
    THEN SubSeq(a, 1, Len(a) - 1) \o << [a[Len(a)] EXCEPT !.hi = b[1].hi] >> \o Tail(b)
    ELSE a \o b

\* The first n bytes of b.
RECURSIVE BTake(_, _)
BTake(b, n) ==
    IF n <= 0 \/ b = <<>> THEN <<>>
    ELSE IF RunLen(b[1]) <= n THEN <<b[1]>> \o BTake(Tail(b), n - RunLen(b[1]))
    ELSE << [b[1] EXCEPT !.hi = b[1].lo + n - 1] >>

\* b without its first n bytes (split_to leaves this in the buffer).
RECURSIVE BDrop(_, _)
BDrop(b, n) ==
    IF n <= 0 \/ b = <<>> THEN b
    ELSE IF RunLen(b[1]) <= n THEN BDrop(Tail(b), n - RunLen(b[1]))
    ELSE << [b[1] EXCEPT !.lo = b[1].lo + n] >> \o Tail(b)

\* The decrypted value of byte i of unit u.
PtAt(u, i) == IF i <= Len(u.val) THEN u.val[i] ELSE 0

\* Flipping the lowest bit of a byte value.
FlipBit(v) == IF v % 2 = 0 THEN v + 1 ELSE v - 1

\* The value of byte i (1-based) of buffer b as the codec reads it.
ByteVal(b, i) ==
    LET r == BTake(BDrop(b, i - 1), 1)[1]
    IN IF r.bad THEN FlipBit(PtAt(r.u, r.lo)) ELSE PtAt(r.u, r.lo)

\* b with byte i corrupted.
Corrupt(b, i) ==
    LET r == BTake(BDrop(b, i - 1), 1)[1]
    IN BTake(b, i - 1) \o << [r EXCEPT !.bad = TRUE] >> \o BDrop(b, i)

\* data is exactly the bytes lo..hi of one unit of kind k, none corrupted.
IsSlice(data, k, lo, hi) ==
    /\ Len(data) = 1
    /\ data[1].u.k = k /\ ~data[1].bad
    /\ data[1].lo = lo /\ data[1].hi = hi

\* ------------------------------------------------------------ ECIES values
NoVal == [t |-> "-", size |-> 0, val |-> <<>>, id |-> NoId]
VAuth == [NoVal EXCEPT !.t = "Auth"]
VAck == [NoVal EXCEPT !.t = "Ack"]
VHeader(size) == [NoVal EXCEPT !.t = "Header", !.size = size]
VBody(val) == [NoVal EXCEPT !.t = "Body", !.val = val]
VAuthReceive(id) == [NoVal EXCEPT !.t = "AuthReceive", !.id = id]

RNone == [t |-> "None", v |-> NoVal, why |-> "-"]
RErr(why) == [t |-> "Err", v |-> NoVal, why |-> why]
RSome(v) == [t |-> "Some", v |-> v, why |-> "-"]
RPending == [t |-> "Pending", v |-> NoVal, why |-> "-"]
REnd == [t |-> "End", v |-> NoVal, why |-> "-"]

\* ------------------------------------------- the ECIES algorithm (spec 4.B)
\* State of the algorithm object: own id, the remote id (set by new_client or
\* by parse_auth), the two MAC accumulators and the body size of the last
\* parsed header.  A MAC accumulator is the number of units of the stream it
\* has absorbed in order, or Poisoned (no frame secrets yet, or it absorbed
\* anything else).
ECIES_new_server(e) ==
    [id |-> PeerIdOf(e), remote_id |-> NoId, egress |-> Poisoned,
     ingress |-> Poisoned, body_size |-> 0]

ECIES_new_client(e, remote_id) ==
    [id |-> PeerIdOf(e), remote_id |-> remote_id, egress |-> Poisoned,
     ingress |-> Poisoned, body_size |-> 0]

\* [big-endian u16 size | payload of size bytes]
Envelope(k, from, size) ==
    WholeUnit(MkUnit(k, from, 0, size + 2, << size \div 256, size % 256 >>))

create_auth(ec) == [ecies |-> ec, data |-> Envelope("auth", ec.id, AuthPayloadLen)]

\* create_ack derives the frame secrets: both accumulators are seeded.
create_ack(ec) ==
    [ecies |-> [ec EXCEPT !.egress = 0, !.ingress = 0],
     data |-> Envelope("ack", ec.id, AckPayloadLen)]

\* data is a whole, uncorrupted envelope of kind k (its size prefix is the
\* associated data of the box, so it covers exactly the payload).
EnvelopeOk(k, data) ==
    /\ BLen(data) >= 2
    /\ IsSlice(data, k, 1, BLen(data))
    /\ data[1].u.len = BLen(data)

parse_auth(ec, data) ==
    IF EnvelopeOk("auth", data)
    THEN [ok |-> TRUE, ecies |-> [ec EXCEPT !.remote_id = data[1].u.from]]
    ELSE [ok |-> FALSE, ecies |-> ec]

\* parse_ack derives the frame secrets: both accumulators are seeded.
parse_ack(ec, data) ==
    IF EnvelopeOk("ack", data) /\ data[1].u.from = ec.remote_id
    THEN [ok |-> TRUE, ecies |-> [ec EXCEPT !.egress = 0, !.ingress = 0]]
    ELSE [ok |-> FALSE, ecies |-> ec]

header_len == HeaderLen

\* header_plain = [u24 big-endian body_size, rlp([0, 0]), zero pad to 16]
HeaderPlain(size) ==
    << (size \div 65536) % 256, (size \div 256) % 256, size % 256, 194, 128, 128 >>

\* The position in the chain a unit created now takes (0: no frame secrets).
NextPos(acc) == IF acc >= 0 THEN acc + 1 ELSE 0
Advance(acc) == IF acc >= 0 THEN acc + 1 ELSE acc

create_header(ec, size) ==
    [ecies |-> [ec EXCEPT !.egress = Advance(ec.egress)],
     data |-> WholeUnit(MkUnit("hdr", ec.id, NextPos(ec.egress), HeaderLen,
                               HeaderPlain(size)))]

create_body(ec, val) ==
    [ecies |-> [ec EXCEPT !.egress = Advance(ec.egress)],
     data |-> WholeUnit(MkUnit("body", ec.id, NextPos(ec.egress),
                               Pad16(Len(val)) + MacLen, val))]

\* data is the whole unit of kind k that the peer created right after the
\* units the ingress accumulator has absorbed.
UnitInChain(ec, k, data) ==
    /\ ec.ingress >= 0
    /\ IsSlice(data, k, 1, BLen(data))
    /\ data[1].u.len = BLen(data)
    /\ data[1].u.from = ec.remote_id
    /\ data[1].u.n = ec.ingress + 1

\* The ciphertext (all but the last MacLen bytes) of data is the ciphertext
\* of that unit: the accumulator absorbs the ciphertext whether or not the
\* tag that follows it matches.
CipherInChain(ec, k, data) ==
    LET ct == BTake(data, BLen(data) - MacLen)
    IN /\ ec.ingress >= 0
       /\ ct = <<>> \/ ( /\ IsSlice(ct, k, 1, BLen(ct))
                         /\ ct[1].u.len = BLen(data)
                         /\ ct[1].u.from = ec.remote_id
                         /\ ct[1].u.n = ec.ingress + 1 )

Absorb(ec, k, data) ==
    IF CipherInChain(ec, k, data) THEN ec.ingress + 1 ELSE Poisoned

parse_header(ec, data) ==
    IF UnitInChain(ec, "hdr", data)
    THEN LET u == data[1].u
             size == PtAt(u, 1) * 65536 + PtAt(u, 2) * 256 + PtAt(u, 3)
         IN [ok |-> TRUE, size |-> size,
             ecies |-> [ec EXCEPT !.ingress = Absorb(ec, "hdr", data),
                                  !.body_size = size]]
    ELSE [ok |-> FALSE, size |-> 0,
          ecies |-> [ec EXCEPT !.ingress = Absorb(ec, "hdr", data)]]

body_len(ec) == Pad16(ec.body_size) + MacLen

\* The plaintext is the decrypted body with the zero padding stripped using
\* the size from the header.
parse_body(ec, data) ==
    IF UnitInChain(ec, "body", data)
    THEN [ok |-> TRUE, ret |-> [i \in 1..ec.body_size |-> PtAt(data[1].u, i)],
          ecies |-> [ec EXCEPT !.ingress = Absorb(ec, "body", data)]]
    ELSE [ok |-> FALSE, ret |-> <<>>,
          ecies |-> [ec EXCEPT !.ingress = Absorb(ec, "body", data)]]

\* ------------------------------------------------------------- ECIESCodec
ECIESCodec_new_server(e) == [ecies |-> ECIES_new_server(e), state |-> "Auth"]

ECIESCodec_new_client(e, remote_id) ==
    [ecies |-> ECIES_new_client(e, remote_id), state |-> "Auth"]

\* u16::from_be_bytes([buf[0], buf[1]]) as usize + 2
TotalSize(buf) == ByteVal(buf, 1) * 256 + ByteVal(buf, 2) + 2

\* The number of bytes the codec needs in the buffer before it parses.
Needed(cd, buf) ==
    IF cd.state \in {"Auth", "Ack"}
    THEN IF BLen(buf) < 2 THEN 2 ELSE TotalSize(buf)
    ELSE IF cd.state = "Header" THEN header_len
    ELSE body_len(cd.ecies)

\* Decoder::decode: result is the codec, the buffer and Ok(None) / Ok(Some) /
\* Err.  split_to has removed the unit from the buffer also when the parse
\* fails; the state changes only on success.  mac records that parse_header
\* or parse_body rejected the MAC in this call.

\* decodeBody losing the state when it has to wait for more bytes.
decodeBody_forgets_state(cd, buf) ==
    LET total == body_len(cd.ecies)
        p == parse_body(cd.ecies, BTake(buf, total))
    IN IF BLen(buf) < total
       THEN [codec |-> [cd EXCEPT !.state = "Header"], buf |-> buf, res |-> RNone,
             mac |-> FALSE]
       ELSE IF ~p.ok
       THEN [codec |-> [cd EXCEPT !.ecies = p.ecies],
             buf |-> BDrop(buf, total), res |-> RErr("body"), mac |-> TRUE]
       ELSE [codec |-> [ecies |-> p.ecies, state |-> "Header"],
             buf |-> BDrop(buf, total), res |-> RSome(VBody(p.ret)), mac |-> FALSE]

decodeBody(cd, buf) ==
    LET total == body_len(cd.ecies)
        p == parse_body(cd.ecies, BTake(buf, total))
    IN IF BLen(buf) < total
       THEN [codec |-> cd, buf |-> buf, res |-> RNone, mac |-> FALSE]
       ELSE IF ~p.ok
       THEN [codec |-> [cd EXCEPT !.ecies = p.ecies],
             buf |-> BDrop(buf, total), res |-> RErr("body"), mac |-> TRUE]
       ELSE [codec |-> [ecies |-> p.ecies, state |-> "Header"],
             buf |-> BDrop(buf, total), res |-> RSome(VBody(p.ret)), mac |-> FALSE]

\* decodeHeader with the length test off by one.
decodeHeader_short(cd, buf) ==
    LET p == parse_header(cd.ecies, BTake(buf, header_len))
    IN IF BLen(buf) <= header_len
       THEN [codec |-> cd, buf |-> buf, res |-> RNone, mac |-> FALSE]
       ELSE IF ~p.ok
       THEN [codec |-> [cd EXCEPT !.ecies = p.ecies],
             buf |-> BDrop(buf, header_len), res |-> RErr("header"), mac |-> TRUE]
       ELSE [codec |-> [ecies |-> p.ecies, state |-> "Body"],
             buf |-> BDrop(buf, header_len), res |-> RSome(VHeader(p.size)),
             mac |-> FALSE]

\* decodeHeader going on to the body although parse_header failed.
decodeHeader_ignore_mac(cd, buf) ==
    LET p == parse_header(cd.ecies, BTake(buf, header_len))
    IN IF BLen(buf) < header_len
       THEN [codec |-> cd, buf |-> buf, res |-> RNone, mac |-> FALSE]
       ELSE [codec |-> [ecies |-> p.ecies, state |-> "Body"],
             buf |-> BDrop(buf, header_len), res |-> RSome(VHeader(p.size)),
             mac |-> ~p.ok]

\* decodeHeader parsing on a copy of the algorithm state and dropping it.
decodeHeader_on_copy(cd, buf) ==
    LET p == parse_header(cd.ecies, BTake(buf, header_len))
    IN IF BLen(buf) < header_len
       THEN [codec |-> cd, buf |-> buf, res |-> RNone, mac |-> FALSE]
       ELSE IF ~p.ok
       THEN [codec |-> cd,
             buf |-> BDrop(buf, header_len), res |-> RErr("header"), mac |-> TRUE]
       ELSE [codec |-> [ecies |-> cd.ecies, state |-> "Body"],
             buf |-> BDrop(buf, header_len), res |-> RSome(VHeader(p.size)),
             mac |-> FALSE]

decodeHeader(cd, buf) ==
    LET p == parse_header(cd.ecies, BTake(buf, header_len))
    IN IF BLen(buf) < header_len
       THEN [codec |-> cd, buf |-> buf, res |-> RNone, mac |-> FALSE]
       ELSE IF ~p.ok
       THEN [codec |-> [cd EXCEPT !.ecies = p.ecies],
             buf |-> BDrop(buf, header_len), res |-> RErr("header"), mac |-> TRUE]
       ELSE [codec |-> [ecies |-> p.ecies, state |-> "Body"],
             buf |-> BDrop(buf, header_len), res |-> RSome(VHeader(p.size)),
             mac |-> FALSE]

\* decodeAuth dropping an auth that parse_auth rejects and asking for more.
decodeAuth_drop(cd, buf) ==
    IF BLen(buf) < 2 THEN [codec |-> cd, buf |-> buf, res |-> RNone, mac |-> FALSE]
    ELSE LET total == TotalSize(buf)
             p == parse_auth(cd.ecies, BTake(buf, total))
         IN IF BLen(buf) < total
            THEN [codec |-> cd, buf |-> buf, res |-> RNone, mac |-> FALSE]
            ELSE IF ~p.ok
            THEN [codec |-> cd, buf |-> BDrop(buf, total), res |-> RNone,
                  mac |-> FALSE]
            ELSE [codec |-> [ecies |-> p.ecies, state |-> "Header"],
                  buf |-> BDrop(buf, total),
                  res |-> RSome(VAuthReceive(p.ecies.remote_id)), mac |-> FALSE]

decodeAuth(cd, buf) ==
    IF BLen(buf) < 2 THEN [codec |-> cd, buf |-> buf, res |-> RNone, mac |-> FALSE]
    ELSE LET total == TotalSize(buf)
             p == parse_auth(cd.ecies, BTake(buf, total))
         IN IF BLen(buf) < total
            THEN [codec |-> cd, buf |-> buf, res |-> RNone, mac |-> FALSE]
            ELSE IF ~p.ok
            THEN [codec |-> cd, buf |-> BDrop(buf, total), res |-> RErr("auth"),
                  mac |-> FALSE]
            ELSE [codec |-> [ecies |-> p.ecies, state |-> "Header"],
                  buf |-> BDrop(buf, total),
                  res |-> RSome(VAuthReceive(p.ecies.remote_id)), mac |-> FALSE]

\* decodeAck waiting for one byte more than the ack has.
decodeAck_wants_more(cd, buf) ==
    IF BLen(buf) < 2 THEN [codec |-> cd, buf |-> buf, res |-> RNone, mac |-> FALSE]
    ELSE LET total == TotalSize(buf)
             p == parse_ack(cd.ecies, BTake(buf, total))
         IN IF BLen(buf) <= total
            THEN [codec |-> cd, buf |-> buf, res |-> RNone, mac |-> FALSE]
            ELSE IF ~p.ok
            THEN [codec |-> cd, buf |-> BDrop(buf, total), res |-> RErr("ack"),
                  mac |-> FALSE]
            ELSE [codec |-> [ecies |-> p.ecies, state |-> "Header"],
                  buf |-> BDrop(buf, total), res |-> RSome(VAck), mac |-> FALSE]

decodeAck(cd, buf) ==
    IF BLen(buf) < 2 THEN [codec |-> cd, buf |-> buf, res |-> RNone, mac |-> FALSE]
    ELSE LET total == TotalSize(buf)
             p == parse_ack(cd.ecies, BTake(buf, total))
         IN IF BLen(buf) < total
            THEN [codec |-> cd, buf |-> buf, res |-> RNone, mac |-> FALSE]
            ELSE IF ~p.ok
            THEN [codec |-> cd, buf |-> BDrop(buf, total), res |-> RErr("ack"),
                  mac |-> FALSE]
            ELSE [codec |-> [ecies |-> p.ecies, state |-> "Header"],
                  buf |-> BDrop(buf, total), res |-> RSome(VAck), mac |-> FALSE]

decode(cd, buf) ==
    CASE cd.state = "Auth" -> decodeAuth(cd, buf)
      [] cd.state = "Ack" -> decodeAck(cd, buf)
      [] cd.state = "Header" -> decodeHeader(cd, buf)
      [] cd.state = "Body" -> decodeBody(cd, buf)

\* decode called again and again on a buffer until it asks for more bytes:
\* the codec and buffer it leaves, after evs the events and errors returned.
RECURSIVE DecodeAll(_, _, _)
DecodeAll(cd, buf, evs) ==
    The({ IF d.res.t = "None"
          THEN [codec |-> d.codec, buf |-> d.buf, evs |-> evs]
          ELSE DecodeAll(d.codec, d.buf, Append(evs, d.res))
          : d \in {decode(cd, buf)} })

\* Decoder::decode_eof (the trait's default): what decode returns, and an
\* error when decode needs more bytes and the buffer is not empty.
decode_eof(cd, buf) ==
    LET d == decode(cd, buf)
    IN IF d.res.t = "None" /\ buf # <<>>
       THEN [d EXCEPT !.res = RErr("bytes remaining on stream")]
       ELSE d

\* encode accepting AuthReceive as a value with nothing to write.
encode_accepts_authreceive(cd, item, buf) ==
    CASE item.t = "AuthReceive" -> [codec |-> cd, buf |-> buf, ok |-> TRUE]
      [] item.t = "Auth" ->
           LET c == create_auth(cd.ecies)
           IN [codec |-> [ecies |-> c.ecies, state |-> "Ack"],
               buf |-> BCat(buf, c.data), ok |-> TRUE]
      [] item.t = "Ack" ->
           LET c == create_ack(cd.ecies)
           IN [codec |-> [ecies |-> c.ecies, state |-> "Header"],
               buf |-> BCat(buf, c.data), ok |-> TRUE]
      [] item.t = "Header" ->
           LET c == create_header(cd.ecies, item.size)
           IN [codec |-> [cd EXCEPT !.ecies = c.ecies],
               buf |-> BCat(buf, c.data), ok |-> TRUE]
      [] item.t = "Body" ->
           LET c == create_body(cd.ecies, item.val)
           IN [codec |-> [cd EXCEPT !.ecies = c.ecies],
               buf |-> BCat(buf, c.data), ok |-> TRUE]

\* Encoder::encode: result is the codec, the buffer and ok.
encode(cd, item, buf) ==
    CASE item.t = "AuthReceive" -> [codec |-> cd, buf |-> buf, ok |-> FALSE]
      [] item.t = "Auth" ->
           LET c == create_auth(cd.ecies)
           IN [codec |-> [ecies |-> c.ecies, state |-> "Ack"],
               buf |-> BCat(buf, c.data), ok |-> TRUE]
      [] item.t = "Ack" ->
           LET c == create_ack(cd.ecies)
           IN [codec |-> [ecies |-> c.ecies, state |-> "Header"],
               buf |-> BCat(buf, c.data), ok |-> TRUE]
      [] item.t = "Header" ->
           LET c == create_header(cd.ecies, item.size)
           IN [codec |-> [cd EXCEPT !.ecies = c.ecies],
               buf |-> BCat(buf, c.data), ok |-> TRUE]
      [] item.t = "Body" ->
           LET c == create_body(cd.ecies, item.val)
           IN [codec |-> [cd EXCEPT !.ecies = c.ecies],
               buf |-> BCat(buf, c.data), ok |-> TRUE]

\* ------------------------------------------- Framed<Io, ECIESCodec> (tokio)
\* The framed transport: the codec, the read buffer with its is_readable and
\* eof flags, and the write buffer.
NewFramed(cd) ==
    [codec |-> cd, rbuf |-> <<>>, readable |-> FALSE, eof |-> FALSE, wbuf |-> <<>>]

\* Framed::poll_next with w the bytes the transport can deliver now and cl
\* whether the transport has ended: decode while the buffer is readable, read
\* otherwise; Pending when there is nothing to read.
RECURSIVE FramedPollNext(_, _, _)
FramedPollNext(f, w, cl) ==
    IF f.readable
    THEN IF f.eof
         THEN The({ [f |-> [f EXCEPT !.codec = d.codec, !.rbuf = d.buf], wire |-> w,
                     res |-> IF d.res.t = "None" THEN REnd ELSE d.res, mac |-> d.mac]
                    : d \in {decode_eof(f.codec, f.rbuf)} })
         ELSE The({ IF d.res.t # "None"
                    THEN [f |-> [f EXCEPT !.codec = d.codec, !.rbuf = d.buf],
                          wire |-> w, res |-> d.res, mac |-> d.mac]
                    ELSE The({ FramedPollNext(g, w, cl)
                               : g \in {[f EXCEPT !.codec = d.codec, !.rbuf = d.buf,
                                                  !.readable = FALSE]} })
                    : d \in {decode(f.codec, f.rbuf)} })
    ELSE IF w # <<>>
         THEN The({ FramedPollNext(g, <<>>, cl)
                    : g \in {[f EXCEPT !.rbuf = BCat(@, w), !.readable = TRUE]} })
         ELSE IF cl
         THEN The({ FramedPollNext(g, w, cl)
                    : g \in {[f EXCEPT !.eof = TRUE, !.readable = TRUE]} })
         ELSE [f |-> f, wire |-> w, res |-> RPending, mac |-> FALSE]

\* Framed::start_send: encode the item into the write buffer.
FramedStartSend(f, item) ==
    LET c == encode(f.codec, item, f.wbuf)
    IN [f |-> [f EXCEPT !.codec = c.codec, !.wbuf = c.buf], ok |-> c.ok]

\* ------------------------------------------------------------ ECIESStream
NoFail == 0 - 1

\* What poll_next returns on an event that is not the one it waits for.
ProtocolError(res) == RErr(IF res.t = "Err" THEN res.why ELSE "protocol")

\* PollBody clearing the flag when the body is not there yet.
PollBody_forgets(f, w, cl, evs) ==
    The({ LET failpos == IF r.mac THEN Len(evs) ELSE NoFail
          IN CASE r.res.t = "Pending" ->
                    [f |-> r.f, wire |-> r.wire, polled_header |-> FALSE,
                     out |-> RPending, evs |-> evs, failpos |-> failpos]
               [] r.res.t = "Some" /\ r.res.v.t = "Body" ->
                    [f |-> r.f, wire |-> r.wire, polled_header |-> FALSE,
                     out |-> RSome(r.res.v), evs |-> Append(evs, r.res.v),
                     failpos |-> failpos]
               [] r.res.t = "End" ->
                    [f |-> r.f, wire |-> r.wire, polled_header |-> TRUE,
                     out |-> REnd, evs |-> evs, failpos |-> failpos]
               [] OTHER ->
                    [f |-> r.f, wire |-> r.wire, polled_header |-> TRUE,
                     out |-> ProtocolError(r.res),
                     evs |-> IF r.res.t = "Some" THEN Append(evs, r.res.v) ELSE evs,
                     failpos |-> failpos]
          : r \in {FramedPollNext(f, w, cl)} })

\* PollBody clearing the flag when the framed stream returns an error.
PollBody_clears_on_error(f, w, cl, evs) ==
    The({ LET failpos == IF r.mac THEN Len(evs) ELSE NoFail
          IN CASE r.res.t = "Pending" ->
                    [f |-> r.f, wire |-> r.wire, polled_header |-> TRUE,
                     out |-> RPending, evs |-> evs, failpos |-> failpos]
               [] r.res.t = "Some" /\ r.res.v.t = "Body" ->
                    [f |-> r.f, wire |-> r.wire, polled_header |-> FALSE,
                     out |-> RSome(r.res.v), evs |-> Append(evs, r.res.v),
                     failpos |-> failpos]
               [] r.res.t = "End" ->
                    [f |-> r.f, wire |-> r.wire, polled_header |-> TRUE,
                     out |-> REnd, evs |-> evs, failpos |-> failpos]
               [] OTHER ->
                    [f |-> r.f, wire |-> r.wire, polled_header |-> FALSE,
                     out |-> ProtocolError(r.res),
                     evs |-> IF r.res.t = "Some" THEN Append(evs, r.res.v) ELSE evs,
                     failpos |-> failpos]
          : r \in {FramedPollNext(f, w, cl)} })

\* ECIESStream::poll_next from the wait for the body on (lines 273-287);
\* evs are the events this call has taken from the framed stream, failpos the
\* number of them taken before a MAC was rejected (NoFail: none was).
PollBody(f, w, cl, evs) ==
    The({ LET failpos == IF r.mac THEN Len(evs) ELSE NoFail
          IN CASE r.res.t = "Pending" ->
                    [f |-> r.f, wire |-> r.wire, polled_header |-> TRUE,
                     out |-> RPending, evs |-> evs, failpos |-> failpos]
               [] r.res.t = "Some" /\ r.res.v.t = "Body" ->
                    [f |-> r.f, wire |-> r.wire, polled_header |-> FALSE,
                     out |-> RSome(r.res.v), evs |-> Append(evs, r.res.v),
                     failpos |-> failpos]
               [] r.res.t = "End" ->
                    [f |-> r.f, wire |-> r.wire, polled_header |-> TRUE,
                     out |-> REnd, evs |-> evs, failpos |-> failpos]
               [] OTHER ->
                    [f |-> r.f, wire |-> r.wire, polled_header |-> TRUE,
                     out |-> ProtocolError(r.res),
                     evs |-> IF r.res.t = "Some" THEN Append(evs, r.res.v) ELSE evs,
                     failpos |-> failpos]
          : r \in {FramedPollNext(f, w, cl)} })

\* ECIESStream::poll_next: wait for the header unless one has been polled,
\* then wait for the body.
poll_next(f, ph, w, cl) ==
    IF ph THEN PollBody(f, w, cl, <<>>)
    ELSE The({ LET failpos == IF r.mac THEN 0 ELSE NoFail
               IN CASE r.res.t = "Pending" ->
                         [f |-> r.f, wire |-> r.wire, polled_header |-> FALSE,
                          out |-> RPending, evs |-> <<>>, failpos |-> failpos]
                    [] r.res.t = "Some" /\ r.res.v.t = "Header" ->
                         The({ [b EXCEPT !.failpos = IF r.mac THEN 0 ELSE @]
                               : b \in {PollBody(r.f, r.wire, cl, <<r.res.v>>)} })
                    [] r.res.t = "End" ->
                         [f |-> r.f, wire |-> r.wire, polled_header |-> FALSE,
                          out |-> REnd, evs |-> <<>>, failpos |-> failpos]
                    [] OTHER ->
                         [f |-> r.f, wire |-> r.wire, polled_header |-> FALSE,
                          out |-> ProtocolError(r.res),
                          evs |-> IF r.res.t = "Some" THEN <<r.res.v>> ELSE <<>>,
                          failpos |-> failpos]
               : r \in {FramedPollNext(f, w, cl)} })

\* start_send returning early on an empty item.
start_send_skip_empty(f, item) ==
    LET h == FramedStartSend(f, VHeader(Len(item)))
        b == FramedStartSend(h.f, VBody(item))
    IN IF item = <<>> THEN [f |-> f, ok |-> TRUE]
       ELSE IF ~h.ok THEN h ELSE b

\* start_send announcing the padded length of the item.
start_send_padded_size(f, item) ==
    LET h == FramedStartSend(f, VHeader(Pad16(Len(item))))
        b == FramedStartSend(h.f, VBody(item))
    IN IF ~h.ok THEN h ELSE b

\* ECIESStream::start_send: Header(item.len()) then Body(item).
start_send(f, item) ==
    LET h == FramedStartSend(f, VHeader(Len(item)))
        b == FramedStartSend(h.f, VBody(item))
    IN IF ~h.ok THEN h ELSE b

\* --------------------------------------------------------------- DPTCodec
\* Datagrams are byte buffers as above.  A byte the codec writes itself (the
\* recovery id, the type, the data) is a unit of one byte with its value.
\* The outputs of keccak256 and of sign_recoverable are units whose bytes are
\* not computed: a digest is named by the bytes hashed (two digests are
\* equal exactly when their inputs are), a signature by the signing key and
\* the digest signed.  Junk is 64 bytes that nobody signed.
Lit(v) == WholeUnit(MkUnit("byte", NoId, 0, 1, <<v>>))

RECURSIVE Lits(_)
Lits(s) == IF s = <<>> THEN <<>> ELSE Lit(Head(s)) \o Lits(Tail(s))

keccak256(data) == WholeUnit(MkUnit("keccak", NoId, 0, 32, data))

Junk == WholeUnit(MkUnit("junk", NoId, 0, 64, <<>>))

Keys == {"k1", "k2"}
Addrs == {"10.0.0.1:30303", "10.0.0.2:30303"}
PublicKey(k) == [pk |-> k]
pk2id(p) == [id |-> p.pk]

\* serialize_compact of SECP256K1.sign_recoverable(message, key): the 64
\* signature bytes and the recovery id.
RecIdOf(k) == IF k = "k1" THEN 0 ELSE 1
sign_recoverable(message, k) ==
    [sig |-> WholeUnit(MkUnit("sig", k, 0, 64, message)), rec |-> RecIdOf(k)]

\* The value of a one-byte run; the bytes of digests and signatures have no
\* value in this model and read as 256, which no byte is.
DByte(r) ==
    IF r.u.k = "byte" THEN (IF r.bad THEN FlipBit(r.u.val[1]) ELSE r.u.val[1])
    ELSE 256

\* buf[i], 0-based as in the source.
DIndex(buf, i) == DByte(BTake(BDrop(buf, i), 1)[1])

\* The values of all the bytes of b.
RECURSIVE DVals(_)
DVals(b) ==
    IF b = <<>> THEN <<>> ELSE <<DByte(BTake(b, 1)[1])>> \o DVals(BDrop(b, 1))

\* b with bit number bit of byte i (1-based) inverted: a byte with a value
\* gets the other value, a byte of a digest or signature becomes a wrong one.
DFlipBit(b, i, bit) ==
    LET r == BTake(BDrop(b, i - 1), 1)[1]
        v == r.u.val[1]
        flipped == IF (v \div (2 ^ bit)) % 2 = 1 THEN v - 2 ^ bit ELSE v + 2 ^ bit
    IN IF r.u.k = "byte" /\ ~r.bad
       THEN BCat(BCat(BTake(b, i - 1), Lit(flipped)), BDrop(b, i))
       ELSE Corrupt(b, i)

\* sig64 is a whole signature as sign_recoverable made it.
Genuine(sig64) ==
    Len(sig64) = 1 /\ sig64[1].u.k = "sig" /\ ~sig64[1].bad
                   /\ sig64[1].lo = 1 /\ sig64[1].hi = 64

\* The signature bytes buf[32..96] of datagram b are a signature over the
\* digest of its type and data (sighash = keccak256(buf[97..])) that its
\* recovery id buf[96] belongs to: recover returns the signer's key.
SignatureFits(b) ==
    LET sig64 == BTake(BDrop(b, 32), 64)
    IN /\ Genuine(sig64)
       /\ sig64[1].u.val = keccak256(BDrop(b, 97))
       /\ DIndex(b, 96) = RecIdOf(sig64[1].u.from)

DMessage(addr, typ, data) == [addr |-> addr, typ |-> typ, data |-> data]
NoMessage == DMessage("-", 0, <<>>)
DNone(hashed) == [t |-> "None", msg |-> NoMessage, id |-> [id |-> "-"], hashed |-> hashed]
DSome(m, id) == [t |-> "Some", msg |-> m, id |-> id, hashed |-> TRUE]
DPanic(hashed) == [t |-> "Panic", msg |-> NoMessage, id |-> [id |-> "-"], hashed |-> hashed]

\* What the secp256k1 library answers on bytes that are not a signature the
\* recovery id and digest belong to: from_compact rejects them, recover
\* fails, or recover finds the key of nobody in particular.
LibAnswers == {"from_compact fails", "recover fails", "recovers a key"}

\* DPTCodec::decode with the hash check left out.
DPTCodec_decode_no_hash_check(src, buf, lib) ==
    LET rec == DIndex(buf, 96)
        sig64 == BTake(BDrop(buf, 32), 64)
        mine == SignatureFits(buf)
    IN IF BLen(buf) < 98 THEN DNone(FALSE)
       ELSE IF rec \notin 0..3 THEN DNone(TRUE)
       ELSE IF ~Genuine(sig64) /\ lib = "from_compact fails" THEN DNone(TRUE)
       ELSE IF ~mine /\ lib # "recovers a key" THEN DNone(TRUE)
       ELSE DSome(DMessage(src, DIndex(buf, 97), DVals(BDrop(buf, 98))),
                  pk2id(IF mine THEN PublicKey(sig64[1].u.from)
                        ELSE PublicKey("stranger")))

\* DPTCodec::decode with the length test off by one.
DPTCodec_decode_short_guard(src, buf, lib) ==
    LET hash == keccak256(BDrop(buf, 32))
        check_hash == BTake(buf, 32)
        rec == DIndex(buf, 96)
        sig64 == BTake(BDrop(buf, 32), 64)
        mine == SignatureFits(buf)
    IN IF BLen(buf) < 97 THEN DNone(FALSE)
       ELSE IF check_hash # hash THEN DNone(TRUE)
       ELSE IF rec \notin 0..3 THEN DNone(TRUE)
       ELSE IF ~Genuine(sig64) /\ lib = "from_compact fails" THEN DNone(TRUE)
       ELSE IF ~mine /\ lib # "recovers a key" THEN DNone(TRUE)
       ELSE IF BLen(buf) <= 97 THEN DPanic(TRUE)
       ELSE DSome(DMessage(src, DIndex(buf, 97), DVals(BDrop(buf, 98))),
                  pk2id(IF mine THEN PublicKey(sig64[1].u.from)
                        ELSE PublicKey("stranger")))

\* DPTCodec::decode(src, buf).  lib is the library's answer where the model
\* does not determine it.  The slices buf[32..], buf[97..], buf[32..96] and
\* the indexes buf[96], buf[97] are in range once the length test has passed;
\* buf[97] out of range would panic.
DPTCodec_decode(src, buf, lib) ==
    LET hash == keccak256(BDrop(buf, 32))
        check_hash == BTake(buf, 32)
        rec == DIndex(buf, 96)
        sig64 == BTake(BDrop(buf, 32), 64)
        mine == SignatureFits(buf)
    IN IF BLen(buf) < 98 THEN DNone(FALSE)
       ELSE IF check_hash # hash THEN DNone(TRUE)
       ELSE IF rec \notin 0..3 THEN DNone(TRUE)
       ELSE IF ~Genuine(sig64) /\ lib = "from_compact fails" THEN DNone(TRUE)
       ELSE IF ~mine /\ lib # "recovers a key" THEN DNone(TRUE)
       ELSE IF BLen(buf) <= 97 THEN DPanic(TRUE)
       ELSE DSome(DMessage(src, DIndex(buf, 97), DVals(BDrop(buf, 98))),
                  pk2id(IF mine THEN PublicKey(sig64[1].u.from)
                        ELSE PublicKey("stranger")))

\* DPTCodec::encode signing the data without the type byte.
DPTCodec_encode_unsigned_typ(secret_key, msg, buf) ==
    LET typdata == BCat(Lit(msg.typ), Lits(msg.data))
        sighash == keccak256(Lits(msg.data))
        rec_sig == sign_recoverable(sighash, secret_key)
        hashdata == BCat(BCat(rec_sig.sig, Lit(rec_sig.rec)), typdata)
        hash == keccak256(hashdata)
    IN [buf |-> BCat(BCat(buf, hash), hashdata), ret |-> msg.addr]

\* DPTCodec::encode(msg, buf): hash, signature, recovery id, type and data
\* are appended to buf; the destination address is returned.
DPTCodec_encode(secret_key, msg, buf) ==
    LET typdata == BCat(Lit(msg.typ), Lits(msg.data))
        sighash == keccak256(typdata)
        rec_sig == sign_recoverable(sighash, secret_key)
        hashdata == BCat(BCat(rec_sig.sig, Lit(rec_sig.rec)), typdata)
        hash == keccak256(hashdata)
    IN [buf |-> BCat(BCat(buf, hash), hashdata), ret |-> msg.addr]

\* -------------------------------------------------------------- NodeRecord
\* A string is the sequence of its characters; a character is named by a
\* string and takes Width bytes in UTF-8.
Width(c) == IF c = "e-acute" THEN 2 ELSE 1

\* str::len: the length in bytes (one per character, and one more for each
\* character of two bytes).
ByteLen(s) == Len(s) + Cardinality({i \in 1..Len(s) : Width(s[i]) = 2})

PREFIX == <<"e", "n", "o", "d", "e", ":", "/", "/">>

\* str::split_at(mid): panics when mid is past the end of the string or not
\* on a character boundary.  j: the characters of s that lie within its
\* first mid bytes.
split_at(s, mid) ==
    LET j == Cardinality({i \in 1..Len(s) : ByteLen(SubSeq(s, 1, i)) <= mid})
    IN IF ByteLen(SubSeq(s, 1, j)) # mid
       THEN [panic |-> TRUE, head |-> <<>>, tail |-> <<>>]
       ELSE [panic |-> FALSE, head |-> SubSeq(s, 1, j), tail |-> SubSeq(s, j + 1, Len(s))]

\* str::split('@'): the parts between the '@' characters, at least one.
RECURSIVE split(_)
split(s) ==
    IF \A i \in 1..Len(s) : s[i] # "@" THEN << s >>
    ELSE LET i == CHOOSE i \in 1..Len(s) : s[i] = "@" /\ \A j \in 1..(i - 1) : s[j] # "@"
         IN << SubSeq(s, 1, i - 1) >> \o split(SubSeq(s, i + 1, Len(s)))

\* PeerId is H512: 64 bytes, written as 128 hexadecimal digits.
IdHexLen == 128
ParsePeerId(s) ==
    Len(s) = IdHexLen /\ \A i \in 1..Len(s) : s[i] \in {"0", "1", "a", "f"}

\* SocketAddr::from_str is the standard library's: its verdict on the
\* address texts used here.
Ip4Text == <<"1", "0", ".", "0", ".", "0", ".", "1", ":", "3", "0", "3", "0", "3">>
HostText == <<"h", "o", "s", "t", ":", "3", "0", "3", "0", "3">>
ParseSocketAddr(s) == s = Ip4Text

NOk(id, addr) == [t |-> "Ok", id |-> id, addr |-> addr, why |-> "-"]
NErr(why) == [t |-> "Err", id |-> <<>>, addr |-> <<>>, why |-> why]
NPanic == [t |-> "Panic", id |-> <<>>, addr |-> <<>>, why |-> "-"]
NNotCalled == [t |-> "-", id |-> <<>>, addr |-> <<>>, why |-> "-"]

\* NodeRecord::from_str
from_str(s) ==
    LET sp == split_at(s, ByteLen(PREFIX))
        parts == split(sp.tail)
    IN IF sp.panic THEN NPanic
       ELSE IF sp.head # PREFIX THEN NErr("Not an enode")
       ELSE IF ~ParsePeerId(parts[1]) THEN NErr("invalid PeerId")
       ELSE IF Len(parts) < 2 THEN NErr("Failed to read address")
       ELSE IF ~ParseSocketAddr(parts[2]) THEN NErr("invalid socket address")
       ELSE NOk(parts[1], parts[2])

\* The input strings: a prefix, an id, and what follows the id.
Hex(n) == [i \in 1..n |-> IF i % 2 = 1 THEN "a" ELSE "1"]
NodeInputs ==
    LET prefixes ==
          { PREFIX, <<>>, SubSeq(PREFIX, 1, 7), <<"E">> \o Tail(PREFIX),
            SubSeq(PREFIX, 1, 7) \o <<"e-acute">> }
        ids ==
          { Hex(IdHexLen), Hex(IdHexLen - 1), Hex(IdHexLen + 1),
            <<"s", "h", "o", "r", "t">>, <<>>, Hex(IdHexLen - 1) \o <<"g">> }
        rests ==
    { <<>>, <<"@">>, <<"@">> \o Ip4Text, <<"@">> \o HostText, <<"@">> \o SubSeq(Ip4Text, 1, 8),
      Ip4Text, <<"@">> \o Ip4Text \o <<"@">>,
      <<"@">> \o Ip4Text \o <<"@">> \o Ip4Text,
      <<"@">> \o Ip4Text \o <<"@", "x">>, <<"@", "@">> \o Ip4Text }
    IN { p \o i \o r : p \in prefixes, i \in ids, r \in rests }

\* ------------------------------------------------------------------ state
VARIABLES
    pc,             \* position of connect / incoming, then "open" or "failed"
    stream,         \* ECIESStream.stream: the framed transport of an endpoint
    polled_header,  \* ECIESStream.polled_header
    remote_id,      \* ECIESStream.remote_id
    wire,           \* wire[e]: bytes written by the peer, not yet read by e
    closed,         \* closed[e]: the transport towards e has ended
    sent,           \* payloads given to start_send, in order
    received,       \* payloads yielded by poll_next, in order
    events,         \* events poll_next took from the framed stream, in order
    outbound,       \* every byte encoded into the write buffer, in order
    last,           \* result of the last try_next / poll_next of an endpoint
    hsres,          \* the event connect / incoming got from try_next
    failed_at,      \* number of events taken before the first rejected MAC
    resumed,        \* a poll_next that started awaiting a body yielded it
    ntamper,        \* bytes corrupted on the wire so far
    oneway,         \* workload: only one endpoint's application sends payloads
    cdc,            \* codec-level specification: the codec under test
    cbuf,           \*   its inbound buffer
    cpend,          \*   bytes of the peer still to arrive in the buffer
    cout,           \*   its outbound buffer
    clastev,        \*   kind of the last event decode emitted
    clast,          \*   the last call: operation, item and result
    cops,           \*   number of encode calls so far
    cacks,          \*   acks the peer has answered the codec's auths with
    cinit,          \*   the codec as it was constructed (or left by connect)
    carr,           \*   the bytes that have arrived in its buffer, in order
    cevs,           \*   the events and errors its decode calls have returned
    dbuf,           \* DPT specification: the datagram
    dkey,           \*   the secret key of the DPTCodec that encoded it
    dmsg,           \*   the message encoded
    dret,           \*   what encode returned
    dorigin,        \*   where the datagram comes from: encode, forge, flip, cut
    dpos,           \*   the byte a bit of which was inverted (0: none)
    dsrc,           \*   the source address decode was called with
    dlib,           \*   the library's answer in that call
    dres,           \*   what decode returned
    nstr,           \* NodeRecord specification: the string to parse
    nres            \*   what from_str returned

streamVars == <<pc, stream, polled_header, remote_id, wire, closed, sent,
                received, events, outbound, last, hsres, failed_at, resumed,
                ntamper, oneway>>
codecVars == <<cdc, cbuf, cpend, cout, clastev, clast, cops, cacks, cinit, carr, cevs>>
dptVars == <<dbuf, dkey, dmsg, dret, dorigin, dpos, dsrc, dlib, dres>>
nodeVars == <<nstr, nres>>
vars == <<streamVars, codecVars, dptVars, nodeVars>>

NoCall == [op |-> "-", item |-> NoVal, res |-> RNone]

StreamInit ==
    /\ pc = [e \in Endpoints |-> IF e = "client" THEN "start" ELSE "recv"]
    /\ stream = [e \in Endpoints |->
                   IF e = "client"
                   THEN NewFramed(ECIESCodec_new_client(e, PeerIdOf("server")))
                   ELSE NewFramed(ECIESCodec_new_server(e))]
    /\ polled_header = [e \in Endpoints |-> FALSE]
    /\ remote_id = [e \in Endpoints |-> NoId]
    /\ wire = [e \in Endpoints |-> <<>>]
    /\ closed = [e \in Endpoints |-> FALSE]
    /\ sent = [e \in Endpoints |-> <<>>]
    /\ received = [e \in Endpoints |-> <<>>]
    /\ events = [e \in Endpoints |-> <<>>]
    /\ outbound = [e \in Endpoints |-> <<>>]
    /\ last = [e \in Endpoints |-> RNone]
    /\ hsres = [e \in Endpoints |-> RNone]
    /\ failed_at = [e \in Endpoints |-> NoFail]
    /\ resumed = [e \in Endpoints |-> FALSE]
    /\ ntamper = 0

CodecIdle ==
    /\ cdc = ECIESCodec_new_server("server")
    /\ cbuf = <<>>
    /\ cpend = <<>>
    /\ cout = <<>>
    /\ clastev = "-"
    /\ clast = NoCall
    /\ cops = 0
    /\ cacks = 0
    /\ cinit = ECIESCodec_new_server("server")
    /\ carr = <<>>
    /\ cevs = <<>>

\* No datagram yet; decode not called.
DNotCalled == [t |-> "-", msg |-> NoMessage, id |-> [id |-> "-"], hashed |-> FALSE]
DPTIdle ==
    /\ dbuf = <<>>
    /\ dkey = "-"
    /\ dmsg = NoMessage
    /\ dret = "-"
    /\ dorigin = "none"
    /\ dpos = 0
    /\ dsrc = "-"
    /\ dlib = "-"
    /\ dres = DNotCalled

NodeIdle == nstr = <<>> /\ nres = NNotCalled

Init == StreamInit /\ CodecIdle /\ DPTIdle /\ NodeIdle /\ oneway = FALSE

InitAdv == StreamInit /\ CodecIdle /\ DPTIdle /\ NodeIdle /\ oneway = TRUE

\* --------------------------------------------------- connect and incoming
\* connect, `transport.send(ECIESValue::Auth)`: the auth is encoded into the
\* write buffer; the flush follows.
ConnectSendAuth ==
    /\ pc["client"] = "start"
    /\ \E s \in {FramedStartSend(stream["client"], VAuth)} :
          /\ stream' = [stream EXCEPT !["client"] = s.f]
          /\ outbound' = [outbound EXCEPT !["client"] =
                            BCat(@, BDrop(s.f.wbuf, BLen(stream["client"].wbuf)))]
    /\ pc' = [pc EXCEPT !["client"] = "flush"]
    /\ UNCHANGED <<polled_header, remote_id, wire, closed, sent, received,
                   events, last, hsres, failed_at, resumed, ntamper, oneway,
                   codecVars, dptVars, nodeVars>>

\* The sizes a write of the buffer b to the transport can have.
WriteSizes(b) == {k \in 1..BLen(b) : k = BLen(b) \/ k % ChunkUnit = 0}

\* The position connect / incoming take once their send has been flushed.
AfterFlush(e, p) ==
    IF p = "flush" THEN (IF e = "client" THEN "recv" ELSE "open") ELSE p

\* poll_flush of the framed transport, by `send` in connect / incoming and by
\* ECIESStream::poll_flush: the transport takes k bytes of the write buffer.
PollFlush(e) ==
    /\ pc[e] \in {"flush", "open"}
    /\ stream[e].wbuf # <<>>
    /\ ~closed[Peer(e)]
    /\ pc[Peer(e)] # "failed"
    /\ \E k \in WriteSizes(stream[e].wbuf) :
          /\ wire' = [wire EXCEPT ![Peer(e)] = BCat(@, BTake(stream[e].wbuf, k))]
          /\ stream' = [stream EXCEPT ![e].wbuf = BDrop(@, k)]
          /\ pc' = [pc EXCEPT ![e] =
                      IF k = BLen(stream[e].wbuf) THEN AfterFlush(e, @) ELSE @]
    /\ UNCHANGED <<polled_header, remote_id, closed, sent, received, events,
                   outbound, last, hsres, failed_at, resumed, ntamper, oneway,
                   codecVars, dptVars, nodeVars>>

\* The send of connect / incoming fails: the peer is gone.
SendFails(e) ==
    /\ pc[e] = "flush"
    /\ closed[Peer(e)] \/ pc[Peer(e)] = "failed"
    /\ pc' = [pc EXCEPT ![e] = "failed"]
    /\ closed' = [closed EXCEPT ![Peer(e)] = TRUE]
    /\ UNCHANGED <<stream, polled_header, remote_id, wire, sent, received,
                   events, outbound, last, hsres, failed_at, resumed, ntamper, oneway,
                   codecVars, dptVars, nodeVars>>

\* ConnectOutcome without the comparison with Ack.
ConnectOutcome_any(res) ==
    IF res.t = "Pending" THEN "recv"
    ELSE IF res.t # "Err" THEN "open"
    ELSE "failed"

\* connect, what follows `transport.try_next()`: a stream if and only if the
\* event is Ack.
ConnectOutcome(res) ==
    IF res.t = "Pending" THEN "recv"
    ELSE IF res.t = "Some" /\ res.v = VAck THEN "open"
    ELSE "failed"

ConnectRecv ==
    /\ pc["client"] = "recv"
    /\ \E r \in {FramedPollNext(stream["client"], wire["client"], closed["client"])} :
       \E to \in {ConnectOutcome(r.res)} :
          /\ stream' = [stream EXCEPT !["client"] = r.f]
          /\ wire' = [wire EXCEPT !["client"] = r.wire]
          /\ last' = [last EXCEPT !["client"] = r.res]
          /\ hsres' = [hsres EXCEPT !["client"] =
                         IF r.res.t = "Pending" THEN @ ELSE r.res]
          /\ pc' = [pc EXCEPT !["client"] = to]
          /\ closed' = [closed EXCEPT !["server"] = @ \/ to = "failed"]
          /\ polled_header' = [polled_header EXCEPT !["client"] = FALSE]
          /\ remote_id' = [remote_id EXCEPT !["client"] =
                             IF to = "open"
                             THEN stream["client"].codec.ecies.remote_id ELSE @]
    /\ UNCHANGED <<sent, received, events, outbound, failed_at, resumed, ntamper,
                   oneway, codecVars, dptVars, nodeVars>>

\* IncomingOutcome without the match on AuthReceive.
IncomingOutcome_any(res) ==
    IF res.t = "Pending" THEN "recv"
    ELSE IF res.t # "Err" THEN "flush"
    ELSE "failed"

\* incoming, what follows `transport.try_next()`: Ack is sent if and only if
\* the event is AuthReceive.
IncomingOutcome(res) ==
    IF res.t = "Pending" THEN "recv"
    ELSE IF res.t = "Some" /\ res.v.t = "AuthReceive" THEN "flush"
    ELSE "failed"

IncomingRecv ==
    /\ pc["server"] = "recv"
    /\ \E r \in {FramedPollNext(stream["server"], wire["server"], closed["server"])} :
       \E to \in {IncomingOutcome(r.res)} :
       \E s \in {IF to = "flush" THEN FramedStartSend(r.f, VAck).f ELSE r.f} :
          /\ stream' = [stream EXCEPT !["server"] = s]
          /\ outbound' = [outbound EXCEPT !["server"] =
                            IF to = "flush" THEN BCat(@, s.wbuf) ELSE @]
          /\ wire' = [wire EXCEPT !["server"] = r.wire]
          /\ last' = [last EXCEPT !["server"] = r.res]
          /\ hsres' = [hsres EXCEPT !["server"] =
                         IF r.res.t = "Pending" THEN @ ELSE r.res]
          /\ pc' = [pc EXCEPT !["server"] = to]
          /\ closed' = [closed EXCEPT !["client"] = @ \/ to = "failed"]
          /\ polled_header' = [polled_header EXCEPT !["server"] = FALSE]
          /\ remote_id' = [remote_id EXCEPT !["server"] =
                             IF to = "flush" THEN r.res.v.id ELSE @]
    /\ UNCHANGED <<sent, received, events, failed_at, resumed, ntamper, oneway, codecVars, dptVars, nodeVars>>

\* ------------------------------------------------------ the open stream
TotalSent == Len(sent["client"]) + Len(sent["server"])

StartSend(e) ==
    /\ pc[e] = "open"
    /\ TotalSent < MaxSends
    /\ oneway => sent[Peer(e)] = <<>>
    /\ \E item \in Payloads :
          \E s \in {start_send(stream[e], item)} :
             /\ stream' = [stream EXCEPT ![e] = s.f]
             /\ outbound' = [outbound EXCEPT ![e] =
                               BCat(@, BDrop(s.f.wbuf, BLen(stream[e].wbuf)))]
             /\ sent' = [sent EXCEPT ![e] = Append(@, item)]
    /\ UNCHANGED <<pc, polled_header, remote_id, wire, closed, received, events,
                   last, hsres, failed_at, resumed, ntamper, oneway, codecVars, dptVars, nodeVars>>

PollNext(e) ==
    /\ pc[e] = "open"
    /\ \E r \in {poll_next(stream[e], polled_header[e], wire[e], closed[e])} :
          /\ stream' = [stream EXCEPT ![e] = r.f]
          /\ wire' = [wire EXCEPT ![e] = r.wire]
          /\ polled_header' = [polled_header EXCEPT ![e] = r.polled_header]
          /\ last' = [last EXCEPT ![e] = r.out]
          /\ events' = [events EXCEPT ![e] = @ \o r.evs]
          /\ received' = [received EXCEPT ![e] =
                            IF r.out.t = "Some" THEN Append(@, r.out.v.val) ELSE @]
          /\ failed_at' = [failed_at EXCEPT ![e] =
                            IF @ = NoFail /\ r.failpos # NoFail
                            THEN Len(events[e]) + r.failpos ELSE @]
          /\ resumed' = [resumed EXCEPT ![e] =
                            @ \/ (polled_header[e] /\ r.out.t = "Some")]
    /\ UNCHANGED <<pc, remote_id, closed, sent, outbound, hsres, ntamper, oneway,
                   codecVars, dptVars, nodeVars>>

\* ------------------------------------------------------- the environment
\* The transport towards e ends: the peer's write half is shut down.
CloseTransport(e) ==
    /\ ~closed[e] /\ ~closed[Peer(e)]
    /\ closed' = [closed EXCEPT ![e] = TRUE]
    /\ UNCHANGED <<pc, stream, polled_header, remote_id, wire, sent, received,
                   events, outbound, last, hsres, failed_at, resumed, ntamper, oneway,
                   codecVars, dptVars, nodeVars>>

\* The network adversary flips a bit of the first or the last byte in flight.
Tamper(e) ==
    /\ ntamper < MaxTamper
    /\ wire[e] # <<>>
    /\ \E i \in {1, BLen(wire[e])} :
          /\ ~BTake(BDrop(wire[e], i - 1), 1)[1].bad
          /\ wire' = [wire EXCEPT ![e] = Corrupt(@, i)]
    /\ ntamper' = ntamper + 1
    /\ UNCHANGED <<pc, stream, polled_header, remote_id, closed, sent, received,
                   events, outbound, last, hsres, failed_at, resumed, oneway,
                   codecVars, dptVars, nodeVars>>

Next ==
    \/ ConnectSendAuth
    \/ ConnectRecv
    \/ IncomingRecv
    \/ \E e \in Endpoints : PollFlush(e)
    \/ \E e \in Endpoints : SendFails(e)
    \/ \E e \in Endpoints : StartSend(e)
    \/ \E e \in Endpoints : PollNext(e)
    \/ \E e \in Endpoints : CloseTransport(e)

Spec == Init /\ [][Next]_vars

NextAdv ==
    \/ ConnectSendAuth
    \/ ConnectRecv
    \/ IncomingRecv
    \/ \E e \in Endpoints : PollFlush(e)
    \/ \E e \in Endpoints : StartSend(e)
    \/ \E e \in Endpoints : PollNext(e)
    \/ \E e \in Endpoints : Tamper(e)

SpecAdv == InitAdv /\ [][NextAdv]_vars

\* connect and incoming over a reliable transport: nothing is damaged, no
\* transport ends.  The executor polls each of the two futures again
\* whenever it can make a step, and the transport takes what a pending flush
\* offers it; what the applications do with the streams is up to them.
NextLive ==
    \/ ConnectSendAuth
    \/ ConnectRecv
    \/ IncomingRecv
    \/ \E e \in Endpoints : PollFlush(e)
    \/ \E e \in Endpoints : StartSend(e)
    \/ \E e \in Endpoints : PollNext(e)

SpecLive ==
    /\ InitAdv /\ [][NextLive]_vars
    /\ WF_vars(ConnectSendAuth)
    /\ WF_vars(ConnectRecv)
    /\ WF_vars(IncomingRecv)
    /\ \A e \in Endpoints : WF_vars(pc[e] = "flush" /\ PollFlush(e))

\* ------------------------------------------- codec-level specification
\* One ECIESCodec driven by an arbitrary caller: decode on the inbound buffer
\* and encode of any value, in any order.  The peer is honest: its handshake
\* unit and its frames are in flight and arrive in pieces; the network may
\* inject (replay) a handshake unit.
PeerPayloads == << <<7>>, <<>> >>

\* What the peer of a codec of endpoint e sends: its handshake unit, then one
\* frame per payload, created with the frame secrets of the handshake.
RECURSIVE PeerFrames(_, _)
PeerFrames(ec, ps) ==
    IF ps = <<>> THEN <<>>
    ELSE LET h == create_header(ec, Len(ps[1]))
             b == create_body(h.ecies, ps[1])
         IN BCat(BCat(h.data, b.data), PeerFrames(b.ecies, Tail(ps)))

PeerHandshake(e) ==
    IF e = "server" THEN create_auth(ECIES_new_client(Peer(e), PeerIdOf(e)))
    ELSE create_ack(ECIES_new_server(Peer(e)))

PeerStream(e) ==
    LET hs == PeerHandshake(e)
    IN BCat(hs.data, PeerFrames([hs.ecies EXCEPT !.egress = 0, !.ingress = 0],
                                PeerPayloads))

\* The auth units among the bytes the codec has encoded.
NumAuths(b) == Cardinality({i \in 1..Len(b) : b[i].u.k = "auth"})

\* An auth of the peer of e for e, whatever e is.
PeerAuthStream(e) == create_auth(ECIES_new_client(Peer(e), PeerIdOf(e))).data

\* The codecs a caller can hold before the first inbound byte, each with the
\* stream in flight towards it: what new_server returned, with the client's
\* auth and frames; the client codec after connect has encoded its Auth,
\* with the server's ack and frames; what new_client returned, with an auth
\* of the peer; what new_server returned, with the client's stream damaged
\* in the first byte of the first frame header.
FreshCodecs ==
    { [codec |-> ECIESCodec_new_server("server"), buf |-> <<>>,
       pend |-> PeerStream("server")],
      [codec |-> ECIESCodec_new_client("client", PeerIdOf("server")), buf |-> <<>>,
        pend |-> PeerAuthStream("client")],
      [codec |-> ECIESCodec_new_server("server"), buf |-> <<>>,
       pend |-> Corrupt(PeerStream("server"), AuthPayloadLen + 3)] }
    \cup { [codec |-> c.codec, buf |-> c.buf, pend |-> PeerStream("client")]
           : c \in {encode(ECIESCodec_new_client("client", PeerIdOf("server")),
                           VAuth, <<>>)} }

\* A codec created by new_client.
IsClientCodec(cd) == cd.ecies.id = PeerIdOf("client")

InitCodec ==
    /\ StreamInit /\ oneway = FALSE /\ DPTIdle /\ NodeIdle
    /\ \E c \in FreshCodecs :
          /\ cdc = c.codec
          /\ cinit = c.codec
          /\ cout = c.buf
          /\ cpend = c.pend
          /\ cacks = NumAuths(c.buf)
    /\ cbuf = <<>>
    /\ carr = <<>>
    /\ cevs = <<>>
    /\ clastev = "-"
    /\ clast = NoCall
    /\ cops = 0

\* The sizes of a piece of b arriving: a multiple of ChunkUnit, all of it, the
\* rest of the unit in front, or a single byte into an empty buffer.
ArriveSizes(b) ==
    {k \in 1..BLen(b) : \/ k = 1 /\ cbuf = <<>>
                        \/ k = BLen(b)
                        \/ k = RunLen(b[1])
                        \/ k % ChunkUnit = 0}

CArrive ==
    /\ cpend # <<>>
    /\ \E k \in ArriveSizes(cpend) :
          /\ cbuf' = BCat(cbuf, BTake(cpend, k))
          /\ carr' = BCat(carr, BTake(cpend, k))
          /\ cpend' = BDrop(cpend, k)
    /\ UNCHANGED <<cdc, cout, clastev, clast, cops, cacks, cinit, cevs, streamVars, dptVars, nodeVars>>

\* The peer answers an auth of the codec with an ack: the ack comes before
\* whatever else of the peer is still in flight.
CPeerAck ==
    /\ cacks < NumAuths(cout)
    /\ cpend' = BCat(Envelope("ack", cdc.ecies.remote_id, AckPayloadLen), cpend)
    /\ cacks' = cacks + 1
    /\ UNCHANGED <<cdc, cbuf, cout, clastev, clast, cops, cinit, carr, cevs, streamVars, dptVars, nodeVars>>

CDecode ==
    /\ \E d \in {decode(cdc, cbuf)} :
          /\ cdc' = d.codec
          /\ cbuf' = d.buf
          /\ clast' = [op |-> "decode", item |-> NoVal, res |-> d.res]
          /\ clastev' = IF d.res.t = "Some" THEN d.res.v.t ELSE clastev
          /\ cevs' = IF d.res.t = "None" THEN cevs ELSE Append(cevs, d.res)
    /\ UNCHANGED <<cpend, cout, cops, cacks, cinit, carr, streamVars, dptVars, nodeVars>>

EncodeItems ==
    {VAuth, VAck, VHeader(1), VBody(<<7>>), VAuthReceive(PeerIdOf("client"))}

CEncode ==
    /\ cops < MaxOps
    /\ \E item \in EncodeItems :
       \E c \in {encode(cdc, item, cout)} :
          /\ cdc' = c.codec
          /\ cout' = c.buf
          /\ clast' = [op |-> "encode", item |-> item,
                       res |-> IF c.ok THEN RNone ELSE RErr("invalid input")]
    /\ cops' = cops + 1
    /\ UNCHANGED <<cbuf, cpend, clastev, cacks, cinit, carr, cevs, streamVars, dptVars, nodeVars>>

NextCodec == CArrive \/ CPeerAck \/ CDecode \/ CEncode

SpecCodec == InitCodec /\ [][NextCodec]_vars

\* ------------------------------------------------- DPT codec specification
\* One datagram: a sender encodes a message, or an adversary who can hash
\* makes a datagram up; on the way one bit may be inverted or the end cut
\* off; then a receiver decodes what arrives.
MsgTypes == {1, 255}
MsgDatas == UNION {[1..n -> {0, 129}] : n \in 0..MaxDataLen}

InitDPT == StreamInit /\ oneway = FALSE /\ CodecIdle /\ DPTIdle /\ NodeIdle

DEncode ==
    /\ dorigin = "none"
    /\ \E k \in Keys, typ \in MsgTypes, data \in MsgDatas, addr \in Addrs :
          \E e \in {DPTCodec_encode(k, DMessage(addr, typ, data), <<>>)} :
             /\ dbuf' = e.buf
             /\ dret' = e.ret
             /\ dkey' = k
             /\ dmsg' = DMessage(addr, typ, data)
    /\ dorigin' = "encode"
    /\ UNCHANGED <<dpos, dsrc, dlib, dres, streamVars, codecVars, nodeVars>>

\* What an adversary puts after the hash: a signature somebody made or junk,
\* any recovery id, and a type and data or nothing at all.
ForgedTails == {<<>>} \cup {BCat(Lit(t), Lits(d)) : t \in MsgTypes, d \in MsgDatas}
ForgedSigs ==
    {Junk} \cup {sign_recoverable(keccak256(td), k).sig : td \in ForgedTails \ {<<>>}, k \in Keys}

DForge ==
    /\ dorigin = "none"
    /\ \E sig \in ForgedSigs, rec \in {0, 1, 4}, td \in ForgedTails :
          \E hashdata \in {BCat(BCat(sig, Lit(rec)), td)} :
             dbuf' = BCat(keccak256(hashdata), hashdata)
    /\ dorigin' = "forge"
    /\ UNCHANGED <<dkey, dmsg, dret, dpos, dsrc, dlib, dres, streamVars, codecVars,
                   nodeVars>>

\* One bit of an encoded datagram is inverted on the way.
DFlip ==
    /\ dorigin = "encode" /\ dres.t = "-"
    /\ \E i \in 1..BLen(dbuf), bit \in 0..7 :
          /\ dbuf' = DFlipBit(dbuf, i, bit)
          /\ dpos' = i
    /\ dorigin' = "flip"
    /\ UNCHANGED <<dkey, dmsg, dret, dsrc, dlib, dres, streamVars, codecVars, nodeVars>>

\* Only the first n bytes of an encoded datagram arrive.
DCut ==
    /\ dorigin = "encode" /\ dres.t = "-"
    /\ \E n \in 0..(BLen(dbuf) - 1) : dbuf' = BTake(dbuf, n)
    /\ dorigin' = "cut"
    /\ UNCHANGED <<dkey, dmsg, dret, dpos, dsrc, dlib, dres, streamVars, codecVars,
                   nodeVars>>

DDecode ==
    /\ dorigin # "none" /\ dres.t = "-"
    /\ \E src \in Addrs, lib \in LibAnswers :
          /\ dres' = DPTCodec_decode(src, dbuf, lib)
          /\ dsrc' = src
          /\ dlib' = lib
    /\ UNCHANGED <<dbuf, dkey, dmsg, dret, dorigin, dpos, streamVars, codecVars,
                   nodeVars>>

NextDPT == DEncode \/ DForge \/ DFlip \/ DCut \/ DDecode

SpecDPT == InitDPT /\ [][NextDPT]_vars

\* ---------------------------------------------- NodeRecord specification
InitNode ==
    /\ StreamInit /\ oneway = FALSE /\ CodecIdle /\ DPTIdle
    /\ nstr \in NodeInputs
    /\ nres = NNotCalled

NParse ==
    /\ nres.t = "-"
    /\ nres' = from_str(nstr)
    /\ UNCHANGED <<nstr, streamVars, codecVars, dptVars>>

NextNode == NParse

SpecNode == InitNode /\ [][NextNode]_vars

\* ============================================================== properties
\* ------------------------------------------------------------------- C1
\* C1: the payloads an endpoint's poll_next has yielded are, in every state,
\* a prefix of the payloads given to its peer's start_send.
C1_ReceivedIsPrefixOfSent ==
    \A e \in Endpoints : IsPrefix(received[e], sent[Peer(e)])

\* Two different payloads of one sender have been yielded.
C1_Witness ==
    \E e \in Endpoints : /\ Len(received[e]) >= 2
                         /\ received[e][1] # received[e][2]

\* ------------------------------------------------------------------- C2
\* The size a header unit announces, and the plaintext of a body unit.
SizeOfHeader(u) == PtAt(u, 1) * 65536 + PtAt(u, 2) * 256 + PtAt(u, 3)
PlainOfBody(u, size) == [i \in 1..size |-> PtAt(u, i)]
IsWholeRun(r, k) == r.u.k = k /\ r.lo = 1 /\ r.hi = r.u.len /\ ~r.bad

\* C2: in every state the bytes an endpoint has encoded are its handshake
\* unit followed by one header and one body per start_send, in order: the
\* j-th header announces the length of the j-th item, and the body right
\* after it is that item padded, the next unit of the MAC chain.
C2_OutboundIsHeaderBodyPairs ==
    \A e \in Endpoints :
       LET ob == outbound[e]
           n == Len(sent[e])
       IN /\ Len(ob) = 1 + 2 * n \/ (n = 0 /\ ob = <<>>)
          /\ ob # <<>> => IsWholeRun(ob[1], IF e = "client" THEN "auth" ELSE "ack")
          /\ \A j \in 1..n :
                LET h == ob[2 * j]
                    b == ob[2 * j + 1]
                IN /\ IsWholeRun(h, "hdr") /\ h.u.len = HeaderLen
                   /\ IsWholeRun(b, "body")
                   /\ SizeOfHeader(h.u) = Len(sent[e][j])
                   /\ b.u.len = Pad16(Len(sent[e][j])) + MacLen
                   /\ PlainOfBody(b.u, SizeOfHeader(h.u)) = sent[e][j]
                   /\ b.u.n = h.u.n + 1

\* An endpoint has sent an empty and a non-empty item.
C2_Witness ==
    \E e \in Endpoints : /\ Len(sent[e]) >= 2
                         /\ sent[e][1] # sent[e][2]

\* ------------------------------------------------------------------- C3
\* C3: the events poll_next has taken from the framed stream alternate
\* Header, Body; the flag is set exactly when a Header has been taken
\* without its Body, whatever polls returned Pending in between; and the
\* j-th payload yielded is the j-th Body, of the length its Header announced.
C3_HeaderBodyPairingSurvivesPending ==
    \A e \in Endpoints :
       /\ \A j \in 1..Len(events[e]) :
             events[e][j].t = (IF j % 2 = 1 THEN "Header" ELSE "Body")
       /\ polled_header[e] <=> (Len(events[e]) % 2 = 1)
       /\ Len(received[e]) = Len(events[e]) \div 2
       /\ \A j \in 1..Len(received[e]) :
             /\ events[e][2 * j].val = received[e][j]
             /\ events[e][2 * j - 1].size = Len(received[e][j])

\* A poll_next that began with the flag set has yielded the payload.
C3_Witness ==
    \E e \in Endpoints : resumed[e] /\ received[e] # <<>>

\* ------------------------------------------------------------------- C6
Resolved(res) == res.t \in {"Some", "End", "Err"}

\* C6: connect reads nothing before Auth has been sent; Auth is the first
\* unit it encodes; it returns a stream exactly when the event try_next
\* resolved to is Ack, fails when it resolved to anything else, and the
\* stream it returns has codec state Header and the flag cleared.
C6_ConnectStreamIffAck ==
    LET f == stream["client"]
    IN /\ pc["client"] \in {"start", "flush"} =>
             /\ hsres["client"] = RNone /\ last["client"] = RNone
             /\ f.rbuf = <<>> /\ ~f.readable /\ ~f.eof
       /\ pc["client"] # "start" =>
             outbound["client"] # <<>> /\ IsWholeRun(outbound["client"][1], "auth")
       /\ pc["client"] = "open" <=> hsres["client"] = RSome(VAck)
       /\ (Resolved(hsres["client"]) /\ hsres["client"] # RSome(VAck)) =>
             pc["client"] = "failed"
       /\ (pc["client"] = "open" /\ last["client"] = hsres["client"]) =>
             f.codec.state = "Header" /\ ~polled_header["client"]

\* connect has returned a stream and nothing has been polled on it yet.
C6_Witness ==
    /\ pc["client"] = "open"
    /\ last["client"] = RSome(VAck)

\* ------------------------------------------------------------------- C7
\* C7: incoming has encoded an Ack only if try_next resolved to AuthReceive;
\* when it resolved to anything else incoming has failed and encoded nothing;
\* the stream's remote_id is the id of that AuthReceive, and the stream it
\* returns has codec state Header and the flag cleared.
C7_IncomingAckOnlyAfterAuthReceive ==
    LET f == stream["server"]
        r == hsres["server"]
        isAuth == r.t = "Some" /\ r.v.t = "AuthReceive"
    IN /\ outbound["server"] # <<>> => isAuth
       /\ (Resolved(r) /\ ~isAuth) =>
             pc["server"] = "failed" /\ outbound["server"] = <<>>
       /\ pc["server"] \in {"flush", "open"} =>
             /\ isAuth
             /\ remote_id["server"] = r.v.id
             /\ IsWholeRun(outbound["server"][1], "ack")
       /\ (pc["server"] = "open" /\ last["server"] = r) =>
             f.codec.state = "Header" /\ ~polled_header["server"]

\* incoming has returned a stream for the client's id.
C7_Witness ==
    /\ pc["server"] = "open"
    /\ remote_id["server"] = PeerIdOf("client")
    /\ last["server"] = hsres["server"]

\* ------------------------------------------------------------------- C4
\* C4: once parse_header or parse_body has rejected a MAC on a connection,
\* the framed stream emits no Body and poll_next yields no payload.
C4_NoBodyAfterMacFailure ==
    \A e \in Endpoints :
       failed_at[e] # NoFail =>
          /\ \A j \in 1..Len(events[e]) :
                j > failed_at[e] => events[e][j].t # "Body"
          /\ 2 * Len(received[e]) <= failed_at[e]

\* After a MAC failure the receiver has gone through all the bytes of two
\* frames of its peer.
C4_Witness ==
    \E e \in Endpoints :
       /\ failed_at[e] # NoFail
       /\ Len(sent[Peer(e)]) >= 2
       /\ stream[Peer(e)].wbuf = <<>>
       /\ wire[e] = <<>>
       /\ BLen(stream[e].rbuf) < HeaderLen

\* ------------------------------------------------------------------- C5
\* The bytes the next decode of e's handshake sees.
HandshakeInput(e) == BCat(stream[e].rbuf, wire[e])

\* They hold a complete auth / ack unit (size prefix plus that many bytes)
\* that parse_auth / parse_ack rejects.
Rejecting(e) ==
    LET cd == stream[e].codec
        b == HandshakeInput(e)
    IN /\ cd.state \in {"Auth", "Ack"}
       /\ BLen(b) >= 2
       /\ BLen(b) >= TotalSize(b)
       /\ ~(IF cd.state = "Auth"
            THEN parse_auth(cd.ecies, BTake(b, TotalSize(b))).ok
            ELSE parse_ack(cd.ecies, BTake(b, TotalSize(b))).ok)

\* C5: when the handshake input holds a complete unit that the parser
\* rejects, decode returns an error, the connect / incoming reading it fails
\* with that error, and a failed connect / incoming does nothing more.
C5_MalformedHandshakeIsFatal ==
    [][ /\ \A e \in Endpoints :
              Rejecting(e) => decode(stream[e].codec, HandshakeInput(e)).res.t = "Err"
        /\ (ConnectRecv /\ Rejecting("client")) =>
              /\ pc'["client"] = "failed"
              /\ hsres'["client"] = RErr("ack")
        /\ (IncomingRecv /\ Rejecting("server")) =>
              /\ pc'["server"] = "failed"
              /\ hsres'["server"] = RErr("auth")
              /\ outbound'["server"] = <<>>
        /\ \A e \in Endpoints :
              pc[e] = "failed" =>
                 /\ pc'[e] = "failed"
                 /\ stream'[e] = stream[e] /\ hsres'[e] = hsres[e]
                 /\ wire'[e] = wire[e] ]_vars

\* A connect or an incoming has failed on a unit its parser rejected.
C5_Witness ==
    \E e \in Endpoints :
       /\ pc[e] = "failed"
       /\ hsres[e] = RErr(IF e = "client" THEN "ack" ELSE "auth")

\* ------------------------------------------------------------------- C8
\* C8: a decode call on a buffer shorter than the state needs returns
\* Ok(None) and leaves buffer and codec unchanged; any other decode call
\* returns one event or an error and removes exactly the bytes of one unit
\* from the front of the buffer.
C8_DecodeConsumesOneUnitOrNothing ==
    [][CDecode =>
         LET need == Needed(cdc, cbuf)
         IN IF BLen(cbuf) < need
            THEN clast'.res = RNone /\ cbuf' = cbuf /\ cdc' = cdc
            ELSE /\ clast'.res.t \in {"Some", "Err"}
                 /\ cbuf' = BDrop(cbuf, need)
                 /\ BLen(cbuf') = BLen(cbuf) - need ]_vars

\* decode has emitted a Body and bytes that follow it are still in the buffer.
C8_Witness ==
    /\ clast.op = "decode"
    /\ clast.res.t = "Some" /\ clast.res.v.t = "Body"
    /\ cbuf # <<>>

\* ------------------------------------------------------------------- C9
\* C9: the event decode emits after a Header is a Body, whatever encode
\* calls and fruitless decode calls happened in between.
C9_BodyFollowsHeader ==
    [][(CDecode /\ clastev = "Header" /\ clast'.res.t = "Some") =>
          clast'.res.v.t = "Body"]_vars

\* ------------------------------------------------------------------ C10
\* C10: once the codec state is Header or Body, it is Header or Body after
\* every decode and every encode call.
C10_StateStaysInFrameMode ==
    [][cdc.state \in {"Header", "Body"} => cdc'.state \in {"Header", "Body"}]_vars

\* ------------------------------------------------------------------ C11
\* C11: an encode call with AuthReceive returns the invalid-input error and
\* leaves output buffer and codec as they were; an encode call with any
\* other value succeeds and appends bytes, whatever the codec state.
C11_EncodeRejectsOnlyAuthReceive ==
    [][CEncode =>
         IF clast'.item.t = "AuthReceive"
         THEN clast'.res = RErr("invalid input") /\ cout' = cout /\ cdc' = cdc
         ELSE clast'.res = RNone /\ BLen(cout') > BLen(cout) ]_vars

\* AuthReceive has been rejected by a codec that waits for a body.
C11_Witness ==
    /\ clast.op = "encode" /\ clast.item.t = "AuthReceive"
    /\ clast.res.t = "Err"
    /\ cdc.state = "Body"

\* ------------------------------------------------------------------ C12
\* Two codecs that have completed the handshake with each other.
FrameSender ==
    [ecies |-> [ECIES_new_client("client", PeerIdOf("server"))
                   EXCEPT !.egress = 0, !.ingress = 0],
     state |-> "Header"]
FrameReceiver ==
    [ecies |-> [ECIES_new_server("server")
                   EXCEPT !.remote_id = PeerIdOf("client"), !.egress = 0, !.ingress = 0],
     state |-> "Header"]

\* Header sizes and plaintexts at the edges of the u24 size field and of the
\* 16-byte padding.
HeaderSizes == {0, 17, 256, 65535}
Plaintexts == {<<>>, [i \in 1..17 |-> 255 - i]}

\* Header(|P|) then Body(P) encoded by FrameSender, decoded by FrameReceiver.
FrameTrip(P) ==
    LET h == encode(FrameSender, VHeader(Len(P)), <<>>)
        b == encode(h.codec, VBody(P), h.buf)
        dh == decode(FrameReceiver, b.buf)
        db == decode(dh.codec, dh.buf)
    IN [tx |-> b.codec, rx |-> db.codec, first |-> dh.res, second |-> db.res,
        rest |-> db.buf]

\* C12: a frame encoded as Header(|P|), Body(P) decodes on the peer as
\* Header(|P|), Body(P); in every state of two connected streams the events
\* an endpoint has decoded are the headers and bodies of the first payloads
\* its peer sent, its ingress MAC has absorbed exactly those units and its
\* egress MAC exactly the units it sent itself, so that the receiver's
\* ingress equals the sender's egress once every frame sent is decoded.
C12_FrameRoundTripAndMacAgreement ==
    /\ \A n \in HeaderSizes :
          LET h == encode(FrameSender, VHeader(n), <<>>)
              d == decode(FrameReceiver, h.buf)
          IN /\ d.res = RSome(VHeader(n))
             /\ body_len(d.codec.ecies) = Pad16(n) + MacLen
             /\ d.codec.ecies.ingress = h.codec.ecies.egress
    /\ \A P \in Plaintexts :
          LET t == FrameTrip(P)
          IN /\ t.first = RSome(VHeader(Len(P))) /\ t.second = RSome(VBody(P))
             /\ t.rest = <<>>
             /\ t.rx.ecies.ingress = t.tx.ecies.egress
    /\ \A e \in Endpoints :
          LET rx == stream[e].codec.ecies
              tx == stream[Peer(e)].codec.ecies
              n == Len(events[e])
          IN /\ \A j \in 1..n :
                   events[e][j] = (IF j % 2 = 1
                                   THEN VHeader(Len(sent[Peer(e)][(j + 1) \div 2]))
                                   ELSE VBody(sent[Peer(e)][j \div 2]))
             /\ pc[e] = "open" =>
                   /\ rx.ingress = n
                   /\ rx.egress = 2 * Len(sent[e])
             /\ (pc[e] = "open" /\ pc[Peer(e)] = "open"
                   /\ n = 2 * Len(sent[Peer(e)])) =>
                   rx.ingress = tx.egress

\* Both endpoints have decoded a frame of the other, all frames are decoded.
C12_Witness ==
    /\ \A e \in Endpoints :
          /\ pc[e] = "open"
          /\ received[e] # <<>>
          /\ Len(events[e]) = 2 * Len(sent[Peer(e)])
          /\ stream[e].codec.ecies.ingress = stream[Peer(e)].codec.ecies.egress

\* ------------------------------------------------------------------ C17
\* C17: a server codec is in a frame state only after it has encoded Ack.
C17_ServerHeaderOnlyAfterAck ==
    (~IsClientCodec(cinit) /\ cdc.state \in {"Header", "Body"}) =>
       \E i \in 1..Len(cout) : cout[i].u.k = "ack"

\* ------------------------------------------------------------------ C18
\* C18: a decode call on a codec created by new_client never parses the
\* inbound bytes as an auth message: it returns neither AuthReceive nor the
\* error of parse_auth.
C18_ClientNeverDecodesAuth ==
    [][(CDecode /\ IsClientCodec(cinit)) =>
          /\ ~(clast'.res.t = "Some" /\ clast'.res.v.t = "AuthReceive")
          /\ ~(clast'.res.t = "Err" /\ clast'.res.why = "auth")]_vars

\* ------------------------------------------------------------------ C19
\* C19: as long as only decode is called, whatever pieces the inbound bytes
\* arrived in and whenever decode was called, going on decoding to the end of
\* the bytes arrived so far gives the events, errors, codec and buffer that
\* decoding those bytes in one piece gives.
C19_DecodingIsChunkIndependent ==
    cops = 0 => DecodeAll(cdc, cbuf, cevs) = DecodeAll(cinit, carr, <<>>)

\* A body that arrived in two pieces, with a fruitless decode call in
\* between, has been decoded.
C19_Witness ==
    /\ cops = 0
    /\ clast.op = "decode" /\ clast.res.t = "Some" /\ clast.res.v.t = "Body"
    /\ Len(cevs) >= 4
    /\ Len(carr) > 0 /\ cbuf = <<>>
    /\ \E j \in 1..Len(cevs) : cevs[j].t = "Some" /\ cevs[j].v = VBody(<<7>>)

C13_DptRoundTrip ==
    /\ dorigin = "encode" => dret = dmsg.addr
    /\ (dorigin = "encode" /\ dres.t # "-") =>
          dres = DSome(DMessage(dsrc, dmsg.typ, dmsg.data), pk2id(PublicKey(dkey)))

\* A message without data, sent to one address, has been decoded from another.
C13_Witness ==
    /\ dorigin = "encode" /\ dres.t = "Some"
    /\ dmsg.data = <<>> /\ dsrc # dmsg.addr
    /\ dres.msg.addr = dsrc

\* ------------------------------------------------------------------ C14
\* C14: decode returns 'no message' or a message, whatever the buffer: 'no
\* message', with no hash computed, for fewer than 98 bytes; 'no message'
\* when the first 32 bytes are not the hash of the rest, when the recovery
\* id is invalid, when the library rejects the signature or fails to recover
\* a key; and a message of 98 bytes has empty data.
C14_DptDecodeDropsSilently ==
    dres.t # "-" =>
       /\ dres.t \in {"None", "Some"}
       /\ BLen(dbuf) < 98 => dres = DNone(FALSE)
       /\ (BLen(dbuf) >= 98 /\ BTake(dbuf, 32) # keccak256(BDrop(dbuf, 32))) =>
             dres.t = "None"
       /\ (BLen(dbuf) >= 98 /\ DIndex(dbuf, 96) \notin 0..3) => dres.t = "None"
       /\ (BLen(dbuf) >= 98 /\ ~Genuine(BTake(BDrop(dbuf, 32), 64))
             /\ dlib = "from_compact fails") => dres.t = "None"
       /\ (BLen(dbuf) >= 98 /\ ~SignatureFits(dbuf) /\ dlib = "recover fails") =>
             dres.t = "None"
       /\ (BLen(dbuf) = 98 /\ dres.t = "Some") => dres.msg.data = <<>>

\* A made-up datagram with the right hash and a signature that does not fit
\* has been dropped after the hash check.
C14_Witness ==
    /\ dorigin = "forge" /\ dres = DNone(TRUE)
    /\ BLen(dbuf) >= 98
    /\ BTake(dbuf, 32) = keccak256(BDrop(dbuf, 32))
    /\ DIndex(dbuf, 96) \in 0..3
    /\ ~SignatureFits(dbuf)

\* ------------------------------------------------------------------ C15
\* C15: an encoded datagram with one bit inverted, in the hash, the
\* signature, the recovery id, the type or the data, decodes to 'no message'.
C15_DptBitFlipIsDropped ==
    (dorigin = "flip" /\ dres.t # "-") => dres.t = "None"

\* A datagram with a bit of its data inverted has been decoded, with the
\* library ready to recover some key from the signature.
C15_Witness ==
    /\ dorigin = "flip" /\ dres.t = "None"
    /\ dpos > 98
    /\ dlib = "recovers a key"

\* ------------------------------------------------------------------ C16
\* s is enode://, 128 hexadecimal digits, '@' and a socket address.
ExactForm(s) ==
    \E id \in {Hex(IdHexLen)}, addr \in {Ip4Text, HostText} : s = PREFIX \o id \o <<"@">> \o addr

\* C16: from_str returns a record only for a string of the exact form, and an
\* error for every other string: it does not panic.
C16_FromStrAcceptsOnlyExactForm ==
    nres.t # "-" =>
       /\ nres.t # "Panic"
       /\ nres.t = "Ok" => ExactForm(nstr)

\* ------------------------------------------------------------------ C21
\* C21: over a reliable transport and with fair scheduling, connect and
\* incoming both return a stream, with both codecs in state Header and the
\* server's remote_id the client's id; and at all times the client has
\* written nothing before its one auth and the server nothing before its one
\* ack, the ack after the auth was received, and only frames after them.
C21_HandshakeCompletes ==
    /\ <>(/\ \A e \in Endpoints : pc[e] = "open" /\ stream[e].codec.state = "Header"
          /\ remote_id["server"] = PeerIdOf("client"))
    /\ [](\A e \in Endpoints :
             /\ outbound[e] # <<>> =>
                   /\ outbound[e][1].u.k = (IF e = "client" THEN "auth" ELSE "ack")
                   /\ outbound[e][1].lo = 1 /\ ~outbound[e][1].bad
             /\ \A i \in 2..Len(outbound[e]) : outbound[e][i].u.k \in {"hdr", "body"}
             /\ (e = "server" /\ outbound[e] # <<>>) =>
                   /\ hsres["server"].t = "Some" /\ hsres["server"].v.t = "AuthReceive"
                   /\ NumAuths(outbound["client"]) = 1)

\* Both calls have returned a stream, the ack has reached the client, and a
\* frame has been written behind a handshake unit.
C21_Witness ==
    /\ \A e \in Endpoints : pc[e] = "open" /\ stream[e].codec.state = "Header"
    /\ remote_id["server"] = PeerIdOf("client")
    /\ hsres["client"] = RSome(VAck)
    /\ \E e \in Endpoints : Len(outbound[e]) > 1

====
